---- MODULE Spec2Model ----
(***************************************************************************)
(* Model of the expense tracker in app.py: the users and expenses tables,  *)
(* the per-client login sessions, and the handlers register, login,        *)
(* logout, add, delete, index, export_csv and ai_coach_chat.               *)
(*                                                                         *)
(* Text that the code inspects character by character (form fields, chat   *)
(* messages) is a sequence of one-character strings.  Text that the code   *)
(* only stores and compares (emails, usernames, passwords) is a string.    *)
(* A float is a record [k, v]: k = "fin" with the whole number v, k =      *)
(* "inf" with the sign v, or k = "nan".  Amounts are whole numbers far     *)
(* below 2^53, where IEEE double addition is exact.                        *)
(***************************************************************************)
EXTENDS Integers, Sequences, FiniteSets, TLC

VARIABLES users, expenses, userSeq, expenseSeq, model, session, resp

vars == <<users, expenses, userSeq, expenseSeq, model, session, resp>>

(***************************************************************************)
(* Bounds of the model.                                                    *)
(***************************************************************************)
MaxUsers == 2
MaxExpenses == 2
MaxAddExpenses == 1
MaxAggExpenses == 3

(***************************************************************************)
(* Python str: strip(), lower(), the `in` substring test, comparison.      *)
(***************************************************************************)
IsSpace(ch) == ch \in {" ", "\t", "\n"}

RECURSIVE lstrip(_)
lstrip(s) == IF s # <<>> /\ IsSpace(Head(s)) THEN lstrip(Tail(s)) ELSE s

RECURSIVE rstrip(_)
rstrip(s) ==
    IF s # <<>> /\ IsSpace(s[Len(s)]) THEN rstrip(SubSeq(s, 1, Len(s) - 1)) ELSE s

strip(s) == rstrip(lstrip(s))

LowerChar(ch) ==
    CASE ch = "A" -> "a" [] ch = "B" -> "b" [] ch = "C" -> "c" [] ch = "D" -> "d"
      [] ch = "E" -> "e" [] ch = "F" -> "f" [] ch = "G" -> "g" [] ch = "H" -> "h"
      [] ch = "I" -> "i" [] ch = "J" -> "j" [] ch = "K" -> "k" [] ch = "L" -> "l"
      [] ch = "M" -> "m" [] ch = "N" -> "n" [] ch = "O" -> "o" [] ch = "P" -> "p"
      [] ch = "Q" -> "q" [] ch = "R" -> "r" [] ch = "S" -> "s" [] ch = "T" -> "t"
      [] ch = "U" -> "u" [] ch = "V" -> "v" [] ch = "W" -> "w" [] ch = "X" -> "x"
      [] ch = "Y" -> "y" [] ch = "Z" -> "z" [] OTHER -> ch

lower(s) == [i \in 1..Len(s) |-> LowerChar(s[i])]

\* Python `w in s` for strings.
Contains(s, w) ==
    \E i \in 1..(Len(s) - Len(w) + 1) : SubSeq(s, i, i + Len(w) - 1) = w

\* any(word in s for word in words)
AnyIn(words, s) == \E k \in 1..Len(words) : Contains(s, words[k])

\* Code point of the characters that occur in stored dates.
Ord(ch) ==
    CASE ch = "-" -> 45 [] ch = "0" -> 48 [] ch = "1" -> 49 [] ch = "2" -> 50
      [] ch = "3" -> 51 [] ch = "4" -> 52 [] ch = "5" -> 53 [] ch = "6" -> 54
      [] ch = "7" -> 55 [] ch = "8" -> 56 [] ch = "9" -> 57 [] ch = "a" -> 97
      [] ch = "b" -> 98 [] ch = "d" -> 100

\* SQLite BINARY collation on TEXT: s <= t.
RECURSIVE TextLeq(_, _)
TextLeq(s, t) ==
    IF s = <<>> THEN TRUE
    ELSE IF t = <<>> THEN FALSE
    ELSE IF Head(s) # Head(t) THEN Ord(Head(s)) < Ord(Head(t))
    ELSE TextLeq(Tail(s), Tail(t))

(***************************************************************************)
(* Digits, Python float(), IEEE addition and comparison.                   *)
(***************************************************************************)
IsDigit(ch) == ch \in {"0", "1", "2", "3", "4", "5", "6", "7", "8", "9"}

DigitVal(ch) ==
    CASE ch = "0" -> 0 [] ch = "1" -> 1 [] ch = "2" -> 2 [] ch = "3" -> 3
      [] ch = "4" -> 4 [] ch = "5" -> 5 [] ch = "6" -> 6 [] ch = "7" -> 7
      [] ch = "8" -> 8 [] ch = "9" -> 9

DigitChar(d) ==
    CASE d = 0 -> "0" [] d = 1 -> "1" [] d = 2 -> "2" [] d = 3 -> "3"
      [] d = 4 -> "4" [] d = 5 -> "5" [] d = 6 -> "6" [] d = 7 -> "7"
      [] d = 8 -> "8" [] d = 9 -> "9"

AllDigits(s) == s # <<>> /\ \A i \in 1..Len(s) : IsDigit(s[i])

RECURSIVE DigitsVal(_)
DigitsVal(s) ==
    IF s = <<>> THEN 0
    ELSE 10 * DigitsVal(SubSeq(s, 1, Len(s) - 1)) + DigitVal(s[Len(s)])

Fin(n) == [k |-> "fin", v |-> n]
PosInf == [k |-> "inf", v |-> 1]
NegInf == [k |-> "inf", v |-> -1]
NaN == [k |-> "nan", v |-> 0]
ValueError == [k |-> "ValueError", v |-> 0]

FNeg(x) == IF x.k = "nan" THEN x ELSE [k |-> x.k, v |-> 0 - x.v]

\* The unsigned part of a float literal: decimal digits, "inf" or "nan"
\* (any case).  The texts of the model carry no point and no exponent.
FloatBody(s) ==
    IF AllDigits(s) THEN Fin(DigitsVal(s))
    ELSE IF lower(s) = <<"i", "n", "f">> THEN PosInf
    ELSE IF lower(s) = <<"n", "a", "n">> THEN NaN
    ELSE ValueError

\* float(text): surrounding whitespace is ignored, one sign is allowed.
float(text) ==
    LET s == strip(text) IN
    IF s # <<>> /\ Head(s) = "-"
        THEN (IF FloatBody(Tail(s)).k = "ValueError" THEN ValueError
              ELSE FNeg(FloatBody(Tail(s))))
    ELSE IF s # <<>> /\ Head(s) = "+" THEN FloatBody(Tail(s))
    ELSE FloatBody(s)

\* x + y on doubles.
FAdd(x, y) ==
    IF x.k = "nan" \/ y.k = "nan" THEN NaN
    ELSE IF x.k = "inf" /\ y.k = "inf" THEN (IF x.v = y.v THEN x ELSE NaN)
    ELSE IF x.k = "inf" THEN x
    ELSE IF y.k = "inf" THEN y
    ELSE Fin(x.v + y.v)

\* x == y on doubles: NaN equals nothing, itself included.
FEq(x, y) == x.k # "nan" /\ y.k # "nan" /\ x = y

(***************************************************************************)
(* Dates: pd.to_datetime on "YYYY-MM-DD" text, and the "YYYY-MM" period.   *)
(***************************************************************************)
DaysIn(y, m) ==
    IF m \in {4, 6, 9, 11} THEN 30
    ELSE IF m = 2
        THEN (IF (y % 4 = 0 /\ y % 100 # 0) \/ y % 400 = 0 THEN 29 ELSE 28)
    ELSE 31

\* The text is a calendar date in ISO form.  The dates of the model are
\* either of this form or no date in any form.
IsIsoDate(s) ==
    /\ Len(s) = 10
    /\ s[5] = "-" /\ s[8] = "-"
    /\ AllDigits(SubSeq(s, 1, 4)) /\ AllDigits(SubSeq(s, 6, 7))
    /\ AllDigits(SubSeq(s, 9, 10))
    /\ LET y == DigitsVal(SubSeq(s, 1, 4))
           m == DigitsVal(SubSeq(s, 6, 7))
           d == DigitsVal(SubSeq(s, 9, 10))
       IN  y >= 1 /\ m \in 1..12 /\ d \in 1..DaysIn(y, m)

to_datetime(s) ==
    [y |-> DigitsVal(SubSeq(s, 1, 4)), m |-> DigitsVal(SubSeq(s, 6, 7)),
     d |-> DigitsVal(SubSeq(s, 9, 10))]

\* dt.to_period('M').astype(str)
MonthKey(dt) ==
    << DigitChar(dt.y \div 1000), DigitChar((dt.y \div 100) % 10),
       DigitChar((dt.y \div 10) % 10), DigitChar(dt.y % 10), "-",
       DigitChar(dt.m \div 10), DigitChar(dt.m % 10) >>

(***************************************************************************)
(* The category classifier.  training_data names six labels; the fitted    *)
(* model is a fixed function from description text to one of them, whose   *)
(* values are an artifact of the fit and are left open here.               *)
(***************************************************************************)
LTransport == <<"T", "r", "a", "n", "s", "p", "o", "r", "t">>
LFood == <<"F", "o", "o", "d">>
LUtilities == <<"U", "t", "i", "l", "i", "t", "i", "e", "s">>
LEntertainment == <<"E", "n", "t", "e", "r", "t", "a", "i", "n", "m", "e", "n", "t">>
LGroceries == <<"G", "r", "o", "c", "e", "r", "i", "e", "s">>
LTravel == <<"T", "r", "a", "v", "e", "l">>

Labels == {LTransport, LFood, LUtilities, LEntertainment, LGroceries, LTravel}

Uncategorized == <<"U", "n", "c", "a", "t", "e", "g", "o", "r", "i", "z", "e", "d">>

\* The description texts that reach the fitted model.
UberRide == <<"U", "b", "e", "r", " ", "r", "i", "d", "e">>

\* predict_category(description): None is the empty text, which is falsy
\* to the caller just as None is.
predict_category(description) ==
    IF strip(description) = <<>> THEN <<>> ELSE model[description]

(***************************************************************************)
(* Passwords: generate_password_hash draws a salt and stores it beside the *)
(* digest; check_password_hash recomputes the digest with the stored salt. *)
(***************************************************************************)
Salts == {"s1", "s2"}

Pbkdf2(salt, password) == <<"pbkdf2:sha256", salt, password>>

generate_password_hash(password, salt) ==
    [salt |-> salt, digest |-> Pbkdf2(salt, password)]

check_password_hash(hash, password) == hash.digest = Pbkdf2(hash.salt, password)

(***************************************************************************)
(* Requests.  A form is a function from the submitted field names to       *)
(* their text; form.get(k, default) is Get(form, k, default).              *)
(***************************************************************************)
Clients == {"c1", "c2"}

Get(form, key, default) == IF key \in DOMAIN form THEN form[key] ELSE default

\* The session cookie of flask_login: the clients that hold a user id.
Authenticated(c) == c \in DOMAIN session /\ \E u \in users : u.id = session[c]

\* load_user(session user id)
current_user(c) == CHOOSE u \in users : u.id = session[c]

\* The last request (handler, client, arguments) and its response.
Response(op, c, req, status, body) ==
    [op |-> op, client |-> c, req |-> req, status |-> status, body |-> body]

\* @login_required on an anonymous request: redirect to the login view.
Unauthorized(op, c) ==
    /\ resp' = Response(op, c, <<>>, "redirect:login", <<>>)
    /\ UNCHANGED <<users, expenses, userSeq, expenseSeq, model, session>>

\* init_db() on a fresh database, the model fit (on the description texts
\* that will reach it), no session.
InitWith(texts) ==
    /\ users = {}
    /\ expenses = {}
    /\ userSeq = 0
    /\ expenseSeq = 0
    /\ model \in [texts -> Labels]
    /\ session = << >>
    /\ resp = Response("start", "", <<>>, "", <<>>)

(***************************************************************************)
(* register, login, logout                                                 *)
(***************************************************************************)
RegisterForm(username, email, password) ==
    [username |-> username, email |-> email, password |-> password]

LoginForm(email, password) == [email |-> email, password |-> password]

\* Register without the UNIQUE constraint on email: every INSERT succeeds.
RegisterNoUnique(c, method, username, email, password, salt) ==
    /\ UNCHANGED <<expenses, expenseSeq, model, session>>
    /\ userSeq < MaxUsers
    /\ users' = users \cup
         {[id |-> userSeq + 1, username |-> username, email |-> email,
           password_hash |-> generate_password_hash(password, salt)]}
    /\ userSeq' = userSeq + 1
    /\ resp' = Response("register", c, RegisterForm(username, email, password),
                        "redirect:login", <<>>)

\* INSERT INTO users: one statement.  The UNIQUE constraint on email raises
\* IntegrityError and nothing is written; otherwise the row gets the next
\* AUTOINCREMENT id.
Register(c, method, username, email, password, salt) ==
    /\ UNCHANGED <<expenses, expenseSeq, model, session>>
    /\ IF method = "GET"
         THEN /\ resp' = Response("register", c, <<>>, "render:register.html", <<>>)
              /\ UNCHANGED <<users, userSeq>>
       ELSE IF \E u \in users : u.email = email
         THEN /\ resp' = Response("register", c, RegisterForm(username, email, password),
                               "Email already exists!", <<>>)
              /\ UNCHANGED <<users, userSeq>>
       ELSE /\ userSeq < MaxUsers
            /\ users' = users \cup
                 {[id |-> userSeq + 1, username |-> username, email |-> email,
                   password_hash |-> generate_password_hash(password, salt)]}
            /\ userSeq' = userSeq + 1
            /\ resp' = Response("register", c, RegisterForm(username, email, password),
                             "redirect:login", <<>>)

\* SELECT * FROM users WHERE email=? ... fetchone()
UserByEmail(email) == {u \in users : u.email = email}

Login(c, method, email, password) ==
    /\ UNCHANGED <<users, expenses, userSeq, expenseSeq, model>>
    /\ IF method = "GET"
         THEN /\ resp' = Response("login", c, <<>>, "render:login.html", <<>>)
              /\ UNCHANGED session
       ELSE IF \E row \in UserByEmail(email) :
                   check_password_hash(row.password_hash, password)
         THEN LET row == CHOOSE r \in UserByEmail(email) : TRUE IN
              /\ session' = [k \in DOMAIN session \cup {c} |->
                               IF k = c THEN row.id ELSE session[k]]
              /\ resp' = Response("login", c, LoginForm(email, password),
                               "redirect:index", <<>>)
       ELSE /\ resp' = Response("login", c, LoginForm(email, password),
                             "Invalid credentials!", <<>>)
            /\ UNCHANGED session

Logout(c) ==
    IF ~Authenticated(c) THEN Unauthorized("logout", c)
    ELSE /\ session' = [k \in DOMAIN session \ {c} |-> session[k]]
         /\ resp' = Response("logout", c, <<>>, "redirect:login", <<>>)
         /\ UNCHANGED <<users, expenses, userSeq, expenseSeq, model>>

(***************************************************************************)
(* add, delete                                                             *)
(***************************************************************************)
\* date = request.form.get('date') or datetime.today().strftime('%Y-%m-%d')
FormDate(form, today) ==
    IF Get(form, "date", <<>>) # <<>> THEN form["date"] ELSE today

\* FormCategory without the strip() of the submitted category.
FormCategoryNoStrip(form) ==
    LET category == Get(form, "category", <<>>)
        description == Get(form, "description", <<>>)
        predicted == IF category = <<>> /\ description # <<>>
                       THEN predict_category(description) ELSE category
    IN  IF predicted # <<>> THEN predicted ELSE Uncategorized

\* category after the classifier step and the "Uncategorized" default
FormCategory(form) ==
    LET category == strip(Get(form, "category", <<>>))
        description == Get(form, "description", <<>>)
        predicted == IF category = <<>> /\ description # <<>>
                       THEN predict_category(description) ELSE category
    IN  IF predicted # <<>> THEN predicted ELSE Uncategorized

\* FormAmount whose except branch substitutes NaN instead of 0.0.
FormAmountNaN(form) ==
    IF "amount" \in DOMAIN form /\ float(form["amount"]).k # "ValueError"
      THEN float(form["amount"]) ELSE NaN

\* try: amount = float(amount)  except: amount = 0.0
FormAmount(form) ==
    IF "amount" \in DOMAIN form /\ float(form["amount"]).k # "ValueError"
      THEN float(form["amount"]) ELSE Fin(0)

\* NewExpense that binds the new row's own id as its user_id.
NewExpenseOwnId(form, today, uid) ==
    [id |-> expenseSeq + 1, date |-> FormDate(form, today),
     category |-> FormCategory(form), amount |-> FormAmount(form),
     description |-> Get(form, "description", <<>>), user_id |-> expenseSeq + 1]

\* The row add() binds to its INSERT.
NewExpense(form, today, uid) ==
    [id |-> expenseSeq + 1, date |-> FormDate(form, today),
     category |-> FormCategory(form), amount |-> FormAmount(form),
     description |-> Get(form, "description", <<>>), user_id |-> uid]

\* SQLite binds a NaN double as NULL, and amount is REAL NOT NULL: the
\* INSERT raises IntegrityError, which add() does not catch.
InsertFails(row) == row.amount.k = "nan"

AddRequest(form, today) == [form |-> form, today |-> today]

Add(c, method, form, today, cap) ==
    IF ~Authenticated(c) THEN Unauthorized("add", c)
    ELSE /\ UNCHANGED <<users, userSeq, model, session>>
         /\ IF method = "GET"
              THEN /\ resp' = Response("add", c, <<>>, "render:add.html", <<>>)
                   /\ UNCHANGED <<expenses, expenseSeq>>
            ELSE LET row == NewExpense(form, today, current_user(c).id) IN
                 IF InsertFails(row)
                   THEN /\ resp' = Response("add", c, AddRequest(form, today),
                                              "error:500", <<>>)
                        /\ UNCHANGED <<expenses, expenseSeq>>
                 ELSE /\ expenseSeq < cap
                      /\ expenses' = expenses \cup {row}
                      /\ expenseSeq' = expenseSeq + 1
                      /\ resp' = Response("add", c, AddRequest(form, today),
                                            "redirect:index", <<>>)

\* Delete whose statement is DELETE FROM expenses WHERE id=?
DeleteAnyOwner(c, id) ==
    IF ~Authenticated(c) THEN Unauthorized("delete", c)
    ELSE /\ expenses' = {e \in expenses : e.id # id}
         /\ resp' = Response("delete", c, id, "redirect:index", <<>>)
         /\ UNCHANGED <<users, userSeq, expenseSeq, model, session>>

\* DELETE FROM expenses WHERE id=? AND user_id=?
Delete(c, id) ==
    IF ~Authenticated(c) THEN Unauthorized("delete", c)
    ELSE /\ expenses' = {e \in expenses :
                           ~(e.id = id /\ e.user_id = current_user(c).id)}
         /\ resp' = Response("delete", c, id, "redirect:index", <<>>)
         /\ UNCHANGED <<users, userSeq, expenseSeq, model, session>>

(***************************************************************************)
(* index, export_csv                                                       *)
(***************************************************************************)
\* The orders in which the rows of S satisfy ORDER BY date DESC; rows of
\* one date come in an order SQL leaves open.
OrderByDateDesc(S) ==
    {f \in [1..Cardinality(S) -> S] :
        /\ \A i, j \in 1..Cardinality(S) : i # j => f[i] # f[j]
        /\ \A i, j \in 1..Cardinality(S) : i < j => TextLeq(f[j].date, f[i].date)}

\* SelectByUser without its WHERE clause.
SelectAll(uid) == expenses

\* SELECT * FROM expenses WHERE user_id=?
SelectByUser(uid) == {e \in expenses : e.user_id = uid}

\* Series.sum(): left to right over the column.
RECURSIVE SumAmounts(_)
SumAmounts(rows) ==
    IF rows = <<>> THEN Fin(0)
    ELSE FAdd(SumAmounts(SubSeq(rows, 1, Len(rows) - 1)), rows[Len(rows)].amount)

\* df['month']
MonthOf(r) == MonthKey(to_datetime(r.date))

\* The value of a row in the column a groupby names.
Cell(r, column) == IF column = "category" THEN r.category ELSE MonthOf(r)

Column(rows, column) == {Cell(rows[i], column) : i \in 1..Len(rows)}

\* df.groupby(column)['amount'].sum().to_dict()
GroupSum(rows, column) ==
    [k \in Column(rows, column) |->
        LET InGroup(r) == Cell(r, column) = k IN SumAmounts(SelectSeq(rows, InGroup))]

\* pd.to_datetime(df['date']) raises on the first text that is no date.
DatesParse(rows) == \A i \in 1..Len(rows) : IsIsoDate(rows[i].date)

\* IndexView whose category grouping drops the rows of the default
\* category, as groupby drops a null key.
IndexViewDropsDefault(rows) ==
    LET Kept(r) == r.category # Uncategorized IN
    IF rows = <<>>
      THEN [expenses |-> rows, total |-> Fin(0), by_category |-> << >>,
            monthly |-> << >>]
    ELSE [expenses |-> rows, total |-> SumAmounts(rows),
          by_category |-> GroupSum(SelectSeq(rows, Kept), "category"),
          monthly |-> GroupSum(rows, "month")]

IndexView(rows) ==
    IF rows = <<>>
      THEN [expenses |-> rows, total |-> Fin(0), by_category |-> << >>,
            monthly |-> << >>]
    ELSE [expenses |-> rows, total |-> SumAmounts(rows),
          by_category |-> GroupSum(rows, "category"),
          monthly |-> GroupSum(rows, "month")]

Index(c) ==
    IF ~Authenticated(c) THEN Unauthorized("index", c)
    ELSE /\ UNCHANGED <<users, expenses, userSeq, expenseSeq, model, session>>
         /\ \E rows \in OrderByDateDesc(SelectByUser(current_user(c).id)) :
              IF DatesParse(rows)
                THEN resp' = Response("index", c, <<>>, "render:index.html",
                                      IndexView(rows))
              ELSE resp' = Response("index", c, <<>>, "error:500", <<>>)

CsvHeader == <<"id", "date", "category", "amount", "description", "user_id">>

CsvRow(r) == <<r.id, r.date, r.category, r.amount, r.description, r.user_id>>

\* df.to_csv(index=False): the header line, then a line per row.
to_csv(rows) == <<CsvHeader>> \o [i \in 1..Len(rows) |-> CsvRow(rows[i])]

ExportCsv(c) ==
    IF ~Authenticated(c) THEN Unauthorized("export", c)
    ELSE /\ UNCHANGED <<users, expenses, userSeq, expenseSeq, model, session>>
         /\ \E rows \in OrderByDateDesc(SelectByUser(current_user(c).id)) :
              resp' = Response("export", c, <<>>, "text/csv", to_csv(rows))

(***************************************************************************)
(* ai_coach, ai_coach_chat                                                 *)
(***************************************************************************)
AiCoach(c) ==
    IF ~Authenticated(c) THEN Unauthorized("ai_coach", c)
    ELSE /\ resp' = Response("ai_coach", c, <<>>, "render:ai_coach.html", <<>>)
         /\ UNCHANGED <<users, expenses, userSeq, expenseSeq, model, session>>

GreetingWords == <<<<"h", "e", "l", "l", "o">>, <<"h", "i">>, <<"h", "e", "y">>>>
JokeWords == <<<<"j", "o", "k", "e">>>>
SavingWords ==
    <<<<"s", "a", "v", "e">>, <<"c", "o", "n", "t", "r", "o", "l">>, <<"s", "p", "e", "n", "d", "i", "n", "g", " ", "t", "i", "p", "s">>, <<"r", "e", "d", "u", "c", "e", " ", "e", "x", "p", "e", "n", "s", "e">>>>
MotivationWords ==
    <<<<"m", "o", "t", "i", "v", "a", "t", "e">>, <<"e", "n", "c", "o", "u", "r", "a", "g", "e">>, <<"i", "n", "s", "p", "i", "r", "e">>>>
AffirmationWords == <<<<"y", "e", "s">>, <<"o", "k">>, <<"s", "u", "r", "e">>>>

\* A response bank: its templates, each filled with the username.  A
\* template is named by its bank and its place in the bank.
Bank(name, username) ==
    {[pool |-> name, template |-> i, username |-> username] : i \in 1..3}

\* The one fixed reply of the affirmation branch.
AffirmationReply(username) ==
    [pool |-> "affirmation", template |-> 1, username |-> username]

\* Replies with the joke branch tested before the greeting branch.
RepliesJokeFirst(user_message, username) ==
    IF AnyIn(JokeWords, user_message) THEN Bank("jokes", username)
    ELSE IF AnyIn(GreetingWords, user_message) THEN Bank("greetings", username)
    ELSE IF AnyIn(SavingWords, user_message) THEN Bank("saving_tips", username)
    ELSE IF AnyIn(MotivationWords, user_message) THEN Bank("motivation", username)
    ELSE IF AnyIn(AffirmationWords, user_message) THEN {AffirmationReply(username)}
    ELSE Bank("default_responses", username)

\* The if/elif chain: the replies random.choice may return.
Replies(user_message, username) ==
    IF AnyIn(GreetingWords, user_message) THEN Bank("greetings", username)
    ELSE IF AnyIn(JokeWords, user_message) THEN Bank("jokes", username)
    ELSE IF AnyIn(SavingWords, user_message) THEN Bank("saving_tips", username)
    ELSE IF AnyIn(MotivationWords, user_message) THEN Bank("motivation", username)
    ELSE IF AnyIn(AffirmationWords, user_message) THEN {AffirmationReply(username)}
    ELSE Bank("default_responses", username)

\* data.get("message", "").lower().strip()
Normalise(message) == strip(lower(message))

AiCoachChat(c, message) ==
    IF ~Authenticated(c) THEN Unauthorized("ai_coach_chat", c)
    ELSE /\ UNCHANGED <<users, expenses, userSeq, expenseSeq, model, session>>
         /\ \E reply \in Replies(Normalise(message), current_user(c).username) :
              resp' = Response("ai_coach_chat", c, message, "json", reply)

(***************************************************************************)
(* Inputs.                                                                 *)
(***************************************************************************)
Methods == {"GET", "POST"}
Usernames == {"Sam", "Ann"}
Emails == {"a@x.io", "b@x.io"}
Passwords == {"pw1", "pw2"}

Jan05 == <<"2", "0", "2", "4", "-", "0", "1", "-", "0", "5">>
Jan20 == <<"2", "0", "2", "4", "-", "0", "1", "-", "2", "0">>
Feb01 == <<"2", "0", "2", "4", "-", "0", "2", "-", "0", "1">>
Mar15 == <<"2", "0", "2", "4", "-", "0", "3", "-", "1", "5">>
BadDate == <<"b", "a", "d">>

Food == <<"F", "o", "o", "d">>
Travel == <<"T", "r", "a", "v", "e", "l">>

Field(key, texts) == {(key :> t) : t \in texts}

\* Every form that takes, for each key, one of the given fields or none.
FormsOf(dates, categories, amounts, descriptions) ==
    {d @@ c @@ a @@ t :
        d \in dates, c \in categories, a \in amounts, t \in descriptions}

Absent == {<< >>}

\* Forms of the full application: a plain expense, one whose date is no
\* date and whose amount is no number, and one whose amount is NaN.
Forms ==
    { [date |-> Jan05, category |-> <<" ", "F", "o", "o", "d">>, amount |-> <<"1", "0">>],
      [date |-> BadDate, category |-> Travel, amount |-> <<"a", "b", "d">>,
       description |-> UberRide],
      [amount |-> <<"n", "a", "n">>, category |-> Food] }

\* Forms for add's field handling: each field absent, blank, padded or set.
AddForms ==
    FormsOf(Absent \cup Field("date", {Jan05}),
            Absent \cup Field("category", {<<" ", " ">>, <<" ", "F", "o", "o", "d", " ">>}),
            Absent \cup Field("amount", {<<>>, <<"a", "b", "d">>, <<" ", "-", "3", " ">>}),
            Absent \cup Field("description", {<<" ">>, UberRide}))

\* Forms for the aggregates: two months, three categories (one defaulted),
\* finite and infinite amounts.
AggForms ==
    { [date |-> Jan05, category |-> Food, amount |-> <<"1", "0">>],
      [date |-> Jan20, category |-> Food, amount |-> <<"5">>],
      [date |-> Feb01, category |-> Travel, amount |-> <<"1", "0", "0">>],
      [date |-> Jan20, category |-> Travel, amount |-> <<" ", "-", "3", " ">>],
      [date |-> Feb01, amount |-> <<"5">>],
      [date |-> Jan05, category |-> Travel, amount |-> <<"i", "n", "f">>],
      [date |-> Feb01, category |-> Food, amount |-> <<"-", "i", "n", "f">>] }

ChatMessages ==
    { <<"H", "e", "l", "l", "o", " ", "t", "h", "e", "r", "e">>,
      <<" ", " ", "H", "E", "Y", " ">>, <<"t", "h", "i", "s">>,
      <<"t", "e", "l", "l", " ", "m", "e", " ", "a", " ", "J", "O", "K", "E">>,
      <<"h", "i", ",", " ", "a", " ", "j", "o", "k", "e">>,
      <<"s", "a", "v", "e">>,
      <<"j", "o", "k", "e", " ", "t", "o", " ", "r", "e", "d", "u", "c", "e", " ", "e", "x", "p", "e", "n", "s", "e">>,
      <<"I", "n", "s", "p", "i", "r", "e", " ", "m", "e">>,
      <<"m", "o", "t", "i", "v", "a", "t", "e", " ", "a", "n", "d", " ", "c", "o", "n", "t", "r", "o", "l">>,
      <<"e", "n", "c", "o", "u", "r", "a", "g", "e", "?", " ", "y", "e", "s">>,
      <<"O", "K">>,
      <<"s", "u", "r", "e", ",", " ", "i", "n", "s", "p", "i", "r", "e">>,
      <<"b", "u", "d", "g", "e", "t">>, <<>> }

(***************************************************************************)
(* Specifications.                                                         *)
(***************************************************************************)
Init == InitWith({})

\* The application: two clients, two accounts.
Next ==
    \/ \E c \in Clients, e \in Emails : Register(c, "POST", "Sam", e, "pw1", "s1")
    \/ \E c \in Clients, e \in Emails, p \in Passwords : Login(c, "POST", e, p)
    \/ \E c \in Clients : Logout(c)
    \/ \E c \in Clients, f \in Forms : Add(c, "POST", f, Mar15, MaxExpenses)
    \/ \E c \in Clients, id \in 1..(MaxExpenses + 1) : Delete(c, id)
    \/ \E c \in Clients : Index(c)
    \/ \E c \in Clients : ExportCsv(c)
    \/ \E c \in Clients : AiCoach(c)
    \/ \E c \in Clients : AiCoachChat(c, <<"H", "i">>)

Spec == Init /\ [][Next]_vars

\* One user; add over every form of AddForms.
NextAdd ==
    \/ Register("c1", "POST", "Sam", "a@x.io", "pw1", "s1")
    \/ Login("c1", "POST", "a@x.io", "pw1")
    \/ \E m \in Methods, f \in AddForms : Add("c1", m, f, Mar15, MaxAddExpenses)

SpecAdd == InitWith({UberRide}) /\ [][NextAdd]_vars

\* One user; add over AggForms, delete and the index view.
NextAgg ==
    \/ Register("c1", "POST", "Sam", "a@x.io", "pw1", "s1")
    \/ Login("c1", "POST", "a@x.io", "pw1")
    \/ \E f \in AggForms : Add("c1", "POST", f, Mar15, MaxAggExpenses)
    \/ \E id \in 1..MaxAggExpenses : Delete("c1", id)
    \/ Index("c1")

SpecAgg == Init /\ [][NextAgg]_vars

\* Two users; the chat over ChatMessages.
NextChat ==
    \/ \E c \in Clients, m \in Methods, u \in Usernames, e \in Emails, s \in Salts :
          Register(c, m, u, e, "pw1", s)
    \/ \E c \in Clients, m \in Methods, e \in Emails : Login(c, m, e, "pw1")
    \/ \E c \in Clients, msg \in ChatMessages : AiCoachChat(c, msg)

SpecChat == Init /\ [][NextChat]_vars

(***************************************************************************)
(* Properties.  resp is the response of the step just taken, so a state    *)
(* predicate on resp relates a response to the state its handler left.     *)
(***************************************************************************)
\* The set of the entries of a sequence.
Range(f) == {f[i] : i \in 1..Len(f)}

\* The amounts of a set of rows added up, in any order.
RECURSIVE SetSum(_)
SetSum(S) ==
    IF S = {} THEN Fin(0)
    ELSE LET e == CHOOSE x \in S : TRUE IN FAdd(SetSum(S \ {e}), e.amount)

\* sum(d.values()) of a dict of sums
RECURSIVE SumValues(_)
SumValues(d) ==
    IF DOMAIN d = {} THEN Fin(0)
    ELSE LET k == CHOOSE x \in DOMAIN d : TRUE
         IN  FAdd(SumValues([j \in DOMAIN d \ {k} |-> d[j]]), d[k])

\* C1: a delete of expense id i by logged-in user u removes exactly the
\* expenses with id i owned by u; when there is none (no such id, or another
\* owner) the expenses and users tables are unchanged; either way the
\* response is the redirect to the index view.
C1_DeleteOnlyOwn ==
    [][ (resp'.op = "delete" /\ resp'.status # "redirect:login") =>
          LET uid == session[resp'.client]
              hit == {e \in expenses : e.id = resp'.req /\ e.user_id = uid}
          IN  /\ resp'.status = "redirect:index"
              /\ users' = users
              /\ expenses' = expenses \ hit
              /\ \A e \in expenses : e \notin expenses' <=>
                    (e.id = resp'.req /\ e.user_id = uid)
              /\ (~\E e \in expenses : e.id = resp'.req /\ e.user_id = uid)
                    => expenses' = expenses ]_vars

\* C1 witness: a delete by a user of an expense id that another user owns
\* has completed and the expense is still stored.
C1_Witness ==
    /\ resp.op = "delete" /\ resp.status = "redirect:index"
    /\ \E e \in expenses : e.id = resp.req /\ e.user_id # session[resp.client]

\* C2: the index listing, its aggregates and the CSV export returned to a
\* logged-in user are computed from exactly the expenses that user owns.
C2_ReadsOwnRows ==
    /\ (resp.op = "index" /\ resp.status = "render:index.html") =>
          LET own == {e \in expenses : e.user_id = session[resp.client]}
              view == resp.body
          IN  /\ Range(view.expenses) = own
              /\ Len(view.expenses) = Cardinality(own)
              /\ view.total = SetSum(own)
              /\ DOMAIN view.by_category = {e.category : e \in own}
              /\ \A k \in DOMAIN view.by_category :
                    view.by_category[k] = SetSum({e \in own : e.category = k})
              /\ DOMAIN view.monthly = {MonthOf(e) : e \in own}
              /\ \A k \in DOMAIN view.monthly :
                    view.monthly[k] = SetSum({e \in own : MonthOf(e) = k})
    /\ (resp.op = "export" /\ resp.status = "text/csv") =>
          LET own == {e \in expenses : e.user_id = session[resp.client]}
          IN  /\ Range(Tail(resp.body)) = {CsvRow(e) : e \in own}
              /\ Len(resp.body) = Cardinality(own) + 1

\* C2 witness: an index listing with rows was returned to a user while
\* another user has expenses stored.
C2_Witness ==
    /\ resp.op = "index" /\ resp.status = "render:index.html"
    /\ resp.body.expenses # <<>>
    /\ \E e \in expenses : e.user_id # session[resp.client]

\* C3: every stored expense references exactly one existing user.
C3_ExpenseHasOneUser ==
    \A e \in expenses : Cardinality({u \in users : u.id = e.user_id}) = 1

\* C3 witness: two users both own stored expenses.
C3_Witness ==
    \E e1, e2 \in expenses : e1.user_id # e2.user_id

\* The aggregates of an index view over rows: total equals the sum of the
\* category sums and the sum of the month sums, and every row has its
\* category and its month among the groups.
AggregatesAgree(view) ==
    /\ FEq(view.total, SumValues(view.by_category))
    /\ FEq(view.total, SumValues(view.monthly))
    /\ \A r \in Range(view.expenses) :
          r.category \in DOMAIN view.by_category /\ MonthOf(r) \in DOMAIN view.monthly

\* C4 as stated: for every nonempty set of a user's expenses with
\* well-formed dates, total = sum of by_category = sum of by_month.
C4_AsStated ==
    (resp.op = "index" /\ resp.status = "render:index.html"
        /\ resp.body.expenses # <<>>) => AggregatesAgree(resp.body)

\* C4 amended: the same, for expenses whose amounts are all finite (and
\* whole numbers with exact sums).
C4_FiniteAmounts ==
    (resp.op = "index" /\ resp.status = "render:index.html"
        /\ resp.body.expenses # <<>>
        /\ \A r \in Range(resp.body.expenses) : r.amount.k = "fin")
      => AggregatesAgree(resp.body)

\* C4 witness: an index view over three expenses with finite amounts, in
\* two categories and two months, one category holding two of them.
C4_Witness ==
    /\ resp.op = "index" /\ resp.status = "render:index.html"
    /\ Len(resp.body.expenses) = 3
    /\ \A r \in Range(resp.body.expenses) : r.amount.k = "fin"
    /\ Cardinality(DOMAIN resp.body.by_category) = 2
    /\ Cardinality(DOMAIN resp.body.monthly) = 2

\* The intents in priority order; the last has no keywords.
Intents ==
    << [pool |-> "greetings", words |-> GreetingWords],
       [pool |-> "jokes", words |-> JokeWords],
       [pool |-> "saving_tips", words |-> SavingWords],
       [pool |-> "motivation", words |-> MotivationWords],
       [pool |-> "affirmation", words |-> AffirmationWords],
       [pool |-> "default_responses", words |-> << >>] >>

Matches(i, text) ==
    i = Len(Intents) \/ \E k \in 1..Len(Intents[i].words) :
                            Contains(text, Intents[i].words[k])

FirstIntent(text) ==
    CHOOSE i \in 1..Len(Intents) :
        Matches(i, text) /\ \A j \in 1..(i - 1) : ~Matches(j, text)

\* C5: the reply to a chat message comes from the pool of the first intent,
\* in priority order, one of whose keywords is a substring of the
\* lowercased, trimmed message; the affirmation reply is its one template.
C5_ReplyFromFirstIntent ==
    (resp.op = "ai_coach_chat" /\ resp.status = "json") =>
        LET i == FirstIntent(strip(lower(resp.req))) IN
        /\ resp.body.pool = Intents[i].pool
        /\ resp.body.template \in 1..3
        /\ Intents[i].pool = "affirmation" => resp.body.template = 1

\* C5 witness: a message holding a greeting keyword and the joke keyword
\* was answered from the greeting pool.
C5_Witness ==
    /\ resp.op = "ai_coach_chat" /\ resp.status = "json"
    /\ Contains(strip(lower(resp.req)), <<"j", "o", "k", "e">>)
    /\ resp.body.pool = "greetings"

\* C6: a registration with the email of an existing user answers "Email
\* already exists!" and writes nothing, and no two users ever share an email.
C6_UniqueEmail ==
    [][ /\ \A u, v \in users' : u.email = v.email => u = v
        /\ (resp'.op = "register" /\ resp'.status # "render:register.html"
              /\ \E u \in users : u.email = resp'.req.email)
             => /\ resp'.status = "Email already exists!"
                /\ users' = users /\ userSeq' = userSeq ]_vars

\* C6 witness: a registration was rejected while two users are stored.
C6_Witness ==
    /\ resp.op = "register" /\ resp.status = "Email already exists!"
    /\ Cardinality(users) = 2

AmountUnparseable(form) ==
    "amount" \notin DOMAIN form \/ float(form["amount"]).k = "ValueError"

WithAmount(form, text) ==
    [k \in DOMAIN form \cup {"amount"} |-> IF k = "amount" THEN text ELSE form[k]]

IsAddPost(r) == r.op = "add" /\ r.status \in {"redirect:index", "error:500"}

\* C7: an add whose amount is missing or not a number is answered with the
\* redirect of a valid add and inserts exactly one expense, owned by the
\* requester, with amount 0.0 and the date, category and description the
\* same form with a valid amount would get.
C7_BadAmountStoredAsZero ==
    [][ (IsAddPost(resp') /\ AmountUnparseable(resp'.req.form)) =>
          LET valid == NewExpense(WithAmount(resp'.req.form, <<"1", "2">>),
                                  resp'.req.today, session[resp'.client])
          IN  /\ resp'.status = "redirect:index"
              /\ valid.amount = Fin(12)
              /\ expenses \subseteq expenses'
              /\ expenses' \ expenses = {[valid EXCEPT !.amount = Fin(0)]} ]_vars

\* C7 witness: an add with an unparseable amount stored an expense of
\* amount 0.0.
C7_Witness ==
    /\ resp.op = "add" /\ resp.status = "redirect:index"
    /\ "amount" \in DOMAIN resp.req.form /\ AmountUnparseable(resp.req.form)
    /\ \E e \in expenses : e.id = expenseSeq /\ e.amount = Fin(0)

\* C9: add stores the trimmed submitted category when that is nonempty,
\* else the classifier's label when the description is neither empty nor
\* blank, else "Uncategorized"; no stored category is empty.
C9_StoredCategory ==
    [][ /\ \A e \in expenses' : e.category # <<>>
        /\ (resp'.op = "add" /\ resp'.status = "redirect:index") =>
             \E e \in expenses' \ expenses :
                LET form == resp'.req.form
                    category == IF "category" \in DOMAIN form
                                  THEN strip(form["category"]) ELSE <<>>
                    description == IF "description" \in DOMAIN form
                                     THEN form["description"] ELSE <<>>
                IN  IF category # <<>> THEN e.category = category
                    ELSE IF strip(description) # <<>>
                      THEN e.category = model[description] /\ e.category \in Labels
                    ELSE e.category = Uncategorized ]_vars

\* C9 witness: an add with a blank category and a description stored a
\* label of the classifier.
C9_Witness ==
    /\ resp.op = "add" /\ resp.status = "redirect:index"
    /\ "category" \in DOMAIN resp.req.form
    /\ strip(resp.req.form["category"]) = <<>>
    /\ \E e \in expenses : e.id = expenseSeq /\ e.category \in Labels

\* C8 as stated: for a user with a stored expense whose date is no date,
\* the index view still completes and returns the aggregates.
C8_AsStated ==
    (resp.op = "index" /\ resp.status # "redirect:login"
        /\ \E e \in expenses :
              e.user_id = session[resp.client] /\ ~IsIsoDate(e.date))
      => resp.status = "render:index.html"

\* The part of C10 on existing expenses: a step leaves every stored expense
\* as it is or removes it by a delete of its id issued by its owner, and a
\* new expense comes only from an add, with a fresh id.
ExpensesImmutable ==
    /\ \A e \in expenses :
          e \in expenses' \/ (resp'.op = "delete" /\ resp'.req = e.id
                                /\ session[resp'.client] = e.user_id)
    /\ \A e \in expenses' \ expenses :
          resp'.op = "add" /\ \A x \in expenses : x.id # e.id

\* C10 as stated: expenses are immutable from creation to deletion, only a
\* delete by the owner removes one, and an add creates exactly one new
\* expense with a fresh id.
C10_AsStated ==
    [][ /\ ExpensesImmutable
        /\ IsAddPost(resp') => Cardinality(expenses' \ expenses) = 1 ]_vars

\* C10 without the add of a NaN amount: the immutability of stored
\* expenses, and one new expense for every add that is answered with the
\* redirect.
C10_Immutable ==
    [][ /\ ExpensesImmutable
        /\ (resp'.op = "add" /\ resp'.status = "redirect:index")
              => Cardinality(expenses' \ expenses) = 1 ]_vars

====
